---- MODULE Spec2Model ----
(***************************************************************************)
(* State-machine model of the VibrantFrogMCP photo search-and-identity     *)
(* engine: the SQLite photo index (shared_index.py), the semantic search   *)
(* of the MCP server (vibrant_frog_mcp.py), the face indexer               *)
(* (index_faces.py), the DBSCAN clustering run (cluster_faces.py), the     *)
(* label and stats endpoints of the face browser (browse_faces_web.py),    *)
(* the background indexing jobs of the MCP server and the iCloud batch     *)
(* indexer (index_photos_icloud.py).                                       *)
(*                                                                         *)
(* Embeddings are small integer vectors.  Cosines are compared exactly by  *)
(* cross-multiplying signed squares, so no floating point is needed.       *)
(***************************************************************************)
EXTENDS Integers, Sequences, FiniteSets, TLC

VARIABLES
    library,         \* the photo files: the faces an image shows, with detector scores
    photo_index,     \* SQLite table photo_index: rows in rowid order
    index_metadata,  \* SQLite table index_metadata (the total_photos key)
    photos,          \* ChromaDB collection "photos": uuid -> has_face_data, num_faces
    faces,           \* ChromaDB collection "faces": records in collection order
    cluster_stats,   \* cluster_stats.txt written by a clustering run
    run,             \* the cluster_faces process (stepwise specification)
    lab,             \* the /api/label request in flight (stepwise specification)
    seen,            \* what the last reader of the faces collection observed
    last,            \* the last completed operation, its arguments and result
    ops,             \* number of operations started so far
    indexing_jobs,   \* MCP server: job_id -> IndexingJob
    job_cancel_flags,\* MCP server: job_id -> cancellation requested
    task,            \* MCP server: job_id -> locals of its background task
    indexed_cache    \* the indexed-photos cache file (a set of uuids)

\* the state of the indexing jobs of the MCP server
jobvars == <<indexing_jobs, job_cancel_flags, task, indexed_cache>>

vars == <<library, photo_index, index_metadata, photos, faces, cluster_stats,
          run, lab, seen, last, ops, jobvars>>

-----------------------------------------------------------------------------
(* Bounds of the model *)

\* operations started in one behaviour
MaxOps == 4
\* largest n_results a search is called with
MaxLimit == 3
\* faces per metadata update of a clustering run; cluster_faces.py:161 sets
\* 100, scaled down here so that a store of a few faces spans several batches
batch_size == 2

\* photos of the ChromaDB photos collection, in collection order
PhotoSeq == <<"p1", "p2">>
PhotoIds == {PhotoSeq[i] : i \in 1..Len(PhotoSeq)}

\* what the detector finds in an image: faces in detection order, each with
\* its embedding (a non-zero direction) and its det_score in tenths
ImgAB == <<[embedding |-> <<1, 0>>, det_score |-> 9], [embedding |-> <<1, 1>>, det_score |-> 6]>>
ImgCD == <<[embedding |-> <<0, 1>>, det_score |-> 6], [embedding |-> <<-1, 0>>, det_score |-> 9]>>
ImgNone == <<>>
Images == {ImgAB, ImgCD, ImgNone}

\* min_confidence values index_faces is run with, in tenths (0.5 is the default)
MinConfidences == {5, 8}

\* photos of the Apple Photos library that get indexed, with the attributes
\* index_photo reads from the photo object
Uuids == {"u1", "u2", "u3"}
PhotoAttrs ==
    [u1 |-> [width |-> 4, height |-> 3],
     u2 |-> [width |-> 3, height |-> 4],
     u3 |-> [width |-> 0, height |-> 0]]

\* what one indexing pass produced for a photo: pass v wrote description
\* "d<v>" and saw the favourite flag as (v = 2)
Versions == {1, 2}
Description(v) == IF v = 1 THEN "d1" ELSE "d2"
Favorite(v) == IF v = 2 THEN 1 ELSE 0

\* embeddings handed to index_photo: two directions, a zero vector and a
\* vector of another dimensionality
GoodVecs == {<<1, 0>>, <<0, 1>>}
PhotoVecs == GoodVecs \cup {<<0, 0>>, <<1>>}

\* search queries and the embedding model.encode gives them
Queries == {"qa", "qb"}
Embed(query) == IF query = "qa" THEN <<1, 0>> ELSE <<1, 1>>

\* n_results values a search is called with
Limits == -1..MaxLimit

\* clustering parameters tried: threshold in tenths, min_cluster_size
Thresholds == {1, 3}
MinSizes == {1, 2, 3}

\* names a user types into the face browser
Names == {"Alice", "Bob"}
\* the label of a request sent with nothing typed
EmptyName == ""
\* person_name of a face nobody labelled (Python None)
NoName == "<None>"
\* cluster ids a label request can carry
LabelCids == -1..2

-----------------------------------------------------------------------------
(* Sequence helpers *)

Min(a, b) == IF a < b THEN a ELSE b
Max(a, b) == IF a > b THEN a ELSE b

Reverse(s) == [i \in 1..Len(s) |-> s[Len(s) + 1 - i]]

RECURSIVE SetToSortedSeq(_)
SetToSortedSeq(S) ==
    IF S = {} THEN <<>>
    ELSE LET m == CHOOSE x \in S : \A y \in S : x <= y
         IN <<m>> \o SetToSortedSeq(S \ {m})

-----------------------------------------------------------------------------
(* Vector arithmetic *)

RECURSIVE DotFrom(_, _, _)
DotFrom(u, v, k) ==
    IF k > Len(u) THEN 0 ELSE u[k] * v[k] + DotFrom(u, v, k + 1)

\* np.dot on two vectors of the same length
Dot(u, v) == DotFrom(u, v, 1)

\* squared Euclidean norm
Norm2(u) == Dot(u, u)

Sign(x) == IF x > 0 THEN 1 ELSE IF x < 0 THEN -1 ELSE 0

-----------------------------------------------------------------------------
(* The faces collection *)

\* the record process_photo_for_faces builds for face i of a photo; the
\* bounding box, confidence, age and gender travel with the record exactly
\* like photo_uuid and face_index and are not modelled separately
NewFace(photo_uuid, i, embedding) ==
    [photo_uuid |-> photo_uuid, face_index |-> i, embedding |-> embedding,
     cluster_id |-> -1, person_name |-> NoName]

\* f"{photo_uuid}_face_{i}"
FaceId(f) == <<f.photo_uuid, f.face_index>>

FaceIds(fs) == {FaceId(fs[k]) : k \in 1..Len(fs)}

\* faces_collection.upsert of one record: an existing id keeps its place in
\* the collection and gets the new embedding and metadata, a new id is added
UpsertFace(fs, f) ==
    IF FaceId(f) \in FaceIds(fs)
    THEN [k \in 1..Len(fs) |-> IF FaceId(fs[k]) = FaceId(f) THEN f ELSE fs[k]]
    ELSE Append(fs, f)

RECURSIVE UpsertFaces(_, _, _, _)
UpsertFaces(fs, photo_uuid, detected, i) ==
    IF i > Len(detected) THEN fs
    ELSE UpsertFaces(UpsertFace(fs, NewFace(photo_uuid, i - 1, detected[i].embedding)),
                     photo_uuid, detected, i + 1)

\* faces = [f for f in faces if f.det_score >= min_confidence]
RECURSIVE FilterByConfidence(_, _, _)
FilterByConfidence(found, min_confidence, k) ==
    IF k > Len(found) THEN <<>>
    ELSE (IF found[k].det_score >= min_confidence THEN <<found[k]>> ELSE <<>>)
         \o FilterByConfidence(found, min_confidence, k + 1)

\* the faces process_photo_for_faces keeps of an image
Detected(image, min_confidence) == FilterByConfidence(image, min_confidence, 1)

\* process_photo_for_faces: one record per kept face, keyed by the photo and
\* the face's position among the kept ones, upserted in one call when any
\* face was kept
process_photo_for_faces(fs, photo_uuid, image, min_confidence) ==
    LET detected == Detected(image, min_confidence)
    IN IF Len(detected) > 0 THEN UpsertFaces(fs, photo_uuid, detected, 1) ELSE fs

\* photos_to_process of index_faces: every photo in reindex mode, else the
\* photos without has_face_data; cut to the first `limit` when limit is set
\* (limit = 0 stands for None)
RECURSIVE FilterToProcess(_, _, _)
FilterToProcess(ph, reindex, k) ==
    IF k > Len(PhotoSeq) THEN <<>>
    ELSE (IF ~reindex /\ ph[PhotoSeq[k]].has_face_data THEN <<>> ELSE <<PhotoSeq[k]>>)
         \o FilterToProcess(ph, reindex, k + 1)

photos_to_process_All(ph, reindex, limit) ==
    LET all == FilterToProcess(ph, TRUE, 1)
    IN IF limit # 0 THEN SubSeq(all, 1, Min(limit, Len(all))) ELSE all

photos_to_process(ph, reindex, limit) ==
    LET all == FilterToProcess(ph, reindex, 1)
    IN IF limit # 0 THEN SubSeq(all, 1, Min(limit, Len(all))) ELSE all

\* the loop of index_faces over photos_to_process: detect, upsert, then mark
\* the photo as processed
RECURSIVE IndexLoopFaces(_, _, _, _, _)
IndexLoopFaces(fs, todo, lib, min_confidence, k) ==
    IF k > Len(todo) THEN fs
    ELSE IndexLoopFaces(process_photo_for_faces(fs, todo[k], lib[todo[k]], min_confidence),
                        todo, lib, min_confidence, k + 1)

IndexLoopPhotos(ph, todo, lib, min_confidence) ==
    [p \in PhotoIds |->
        IF \E k \in 1..Len(todo) : todo[k] = p
        THEN [has_face_data |-> TRUE, num_faces |-> Len(Detected(lib[p], min_confidence))]
        ELSE ph[p]]

-----------------------------------------------------------------------------
(* DBSCAN over cosine distance, as sklearn.cluster.DBSCAN computes it *)

\* cosine distance of u and v is at most e/10, for 0 < e <= 10:
\* cos >= (10 - e)/10, squared and cross-multiplied
WithinEps(u, v, e) ==
    LET d == Dot(u, v)
    IN /\ d >= 0
       /\ 100 * d * d >= (10 - e) * (10 - e) * Norm2(u) * Norm2(v)

\* radius_neighbors: for every point the points within eps, itself included
neighborhoods(E, e) ==
    [i \in 1..Len(E) |-> {j \in 1..Len(E) : WithinEps(E[i], E[j], e)}]

\* core samples: at least min_samples points in the neighbourhood
core_samples(nb, min_samples) ==
    {i \in DOMAIN nb : Cardinality(nb[i]) >= min_samples}

\* the depth-first expansion of one cluster from the points on the stack
RECURSIVE dbscan_expand(_, _, _, _, _)
dbscan_expand(labels, stack, label_num, nb, core) ==
    IF stack = <<>> THEN labels
    ELSE LET i == stack[Len(stack)]
             rest == SubSeq(stack, 1, Len(stack) - 1)
         IN IF labels[i] # -1 THEN dbscan_expand(labels, rest, label_num, nb, core)
            ELSE LET marked == [labels EXCEPT ![i] = label_num]
                     push == IF i \in core
                             THEN SetToSortedSeq({v \in nb[i] : marked[v] = -1})
                             ELSE <<>>
                 IN dbscan_expand(marked, rest \o push, label_num, nb, core)

\* dbscan_inner: scan the points in order, start a new cluster at every
\* unlabelled core point
RECURSIVE dbscan_inner(_, _, _, _, _)
dbscan_inner(i, labels, label_num, nb, core) ==
    IF i > Len(labels) THEN labels
    ELSE IF labels[i] # -1 \/ i \notin core
         THEN dbscan_inner(i + 1, labels, label_num, nb, core)
         ELSE dbscan_inner(i + 1, dbscan_expand(labels, <<i>>, label_num, nb, core),
                           label_num + 1, nb, core)

\* DBSCAN(eps, min_samples, metric='cosine').fit_predict(embeddings)
DBSCAN_MinOff(E, e, min_samples) ==
    LET nb == neighborhoods(E, e)
    IN dbscan_inner(1, [i \in 1..Len(E) |-> -1], 0, nb,
                    core_samples(nb, min_samples + 1))

DBSCAN(E, e, min_samples) ==
    LET nb == neighborhoods(E, e)
    IN dbscan_inner(1, [i \in 1..Len(E) |-> -1], 0, nb,
                    core_samples(nb, min_samples))

Embeddings(fs) == [i \in 1..Len(fs) |-> fs[i].embedding]

\* the update loop of cluster_faces: every loaded face gets its label, the
\* rest of its metadata is written back as loaded
PersistLabels(fs, metadatas, labels, from, to) ==
    [k \in 1..Len(fs) |->
        IF \E j \in from..to : j <= Len(metadatas) /\ FaceId(metadatas[j]) = FaceId(fs[k])
        THEN LET j == CHOOSE j \in from..to :
                          j <= Len(metadatas) /\ FaceId(metadatas[j]) = FaceId(fs[k])
             IN [metadatas[j] EXCEPT !.cluster_id = labels[j], !.embedding = fs[k].embedding]
        ELSE fs[k]]

\* incremental mode returns early when no loaded face has cluster_id -1
NothingToCluster(metadatas, incremental) ==
    incremental /\ ~\E k \in 1..Len(metadatas) : metadatas[k].cluster_id = -1

\* what a whole run of cluster_faces leaves in the faces collection
cluster_faces_OnlyNew(fs, threshold, min_cluster_size, incremental) ==
    IF Len(fs) = 0 \/ NothingToCluster(fs, incremental) THEN fs
    ELSE LET labels == DBSCAN(Embeddings(fs), threshold, min_cluster_size)
         IN [k \in 1..Len(fs) |->
                IF incremental /\ fs[k].cluster_id # -1 THEN fs[k]
                ELSE [fs[k] EXCEPT !.cluster_id = labels[k]]]

cluster_faces_Always(fs, threshold, min_cluster_size, incremental) ==
    IF Len(fs) = 0 THEN fs
    ELSE PersistLabels(fs, fs, DBSCAN(Embeddings(fs), threshold, min_cluster_size),
                       1, Len(fs))

cluster_faces(fs, threshold, min_cluster_size, incremental) ==
    IF Len(fs) = 0 \/ NothingToCluster(fs, incremental) THEN fs
    ELSE PersistLabels(fs, fs, DBSCAN(Embeddings(fs), threshold, min_cluster_size),
                       1, Len(fs))

\* the statistics a completed run writes to cluster_stats.txt
ClusterStats(labels) ==
    [total_faces |-> Len(labels),
     num_clusters |-> Cardinality({labels[k] : k \in 1..Len(labels)} \ {-1}),
     outliers |-> Cardinality({k \in 1..Len(labels) : labels[k] = -1})]

NoStats == [total_faces |-> -1, num_clusters |-> -1, outliers |-> -1]

-----------------------------------------------------------------------------
(* The label endpoint of the face browser *)

\* POST /api/label: every face whose cluster_id equals the requested one gets
\* person_name = label
LabelFaces_Stale(fs, cluster_id, label) ==
    [k \in 1..Len(fs) |->
        IF fs[k].cluster_id = cluster_id /\ fs[k].person_name = NoName
        THEN [fs[k] EXCEPT !.person_name = label]
        ELSE fs[k]]

LabelFaces(fs, cluster_id, label) ==
    [k \in 1..Len(fs) |->
        IF fs[k].cluster_id = cluster_id
        THEN [fs[k] EXCEPT !.person_name = label]
        ELSE fs[k]]

\* updated_count of the response
updated_count_Renamed(fs, cluster_id) ==
    Cardinality({k \in 1..Len(fs) : fs[k].cluster_id = cluster_id
                                      /\ fs[k].person_name = NoName})

updated_count(fs, cluster_id) ==
    Cardinality({k \in 1..Len(fs) : fs[k].cluster_id = cluster_id})

-----------------------------------------------------------------------------
(* The SQLite photo index *)

\* orientation as index_photo derives it: width > height * 1.1 is landscape,
\* height > width * 1.1 is portrait, anything else (a missing size too) square
Orientation(width, height) ==
    IF width # 0 /\ height # 0
    THEN IF 10 * width > 11 * height THEN "landscape"
         ELSE IF 10 * height > 11 * width THEN "portrait"
         ELSE "square"
    ELSE "square"

\* the row INSERT OR REPLACE writes
PhotoRow(uuid, v, embedding) ==
    [uuid |-> uuid, description |-> Description(v), embedding |-> embedding,
     favorite |-> Favorite(v),
     width |-> PhotoAttrs[uuid].width, height |-> PhotoAttrs[uuid].height,
     orientation |-> Orientation(PhotoAttrs[uuid].width, PhotoAttrs[uuid].height)]

RECURSIVE DeleteRow(_, _)
DeleteRow(rows, uuid) ==
    IF rows = <<>> THEN <<>>
    ELSE (IF Head(rows).uuid = uuid THEN <<>> ELSE <<Head(rows)>>)
         \o DeleteRow(Tail(rows), uuid)

\* INSERT OR IGNORE: an existing row wins
index_photo_Ignore(rows, uuid, v, embedding) ==
    IF \E k \in 1..Len(rows) : rows[k].uuid = uuid THEN rows
    ELSE Append(rows, PhotoRow(uuid, v, embedding))

\* INSERT OR REPLACE INTO photo_index: the row of the same uuid is deleted and
\* the new row gets a fresh rowid at the end of the table
index_photo(rows, uuid, v, embedding) ==
    Append(DeleteRow(rows, uuid), PhotoRow(uuid, v, embedding))

\* get_stats: COUNT(*) and the favourites count
get_stats(rows) ==
    [total_photos |-> Len(rows),
     favorites |-> Cardinality({k \in 1..Len(rows) : rows[k].favorite = 1}),
     error |-> FALSE]

\* get_stats when the database cannot be read
StatsError == [total_photos |-> 0, favorites |-> 0, error |-> TRUE]

\* the index before any process has opened it: no database file, no
\* index_metadata row (total_photos -1 stands for the missing row)
NoDatabase == [created |-> FALSE, total_photos |-> -1]

\* SharedPhotoIndex(): the constructor creates the database file, the tables
\* and the metadata rows version, embedding_model, embedding_dimensions and
\* created_at where they are missing, and leaves an existing database as it is
initialize_database(metadata) == [metadata EXCEPT !.created = TRUE]

-----------------------------------------------------------------------------
(* Semantic search *)

\* a similarity as the float the code computes: NaN when a norm is zero,
\* else the cosine, kept as the signed square s/d of dot / (|q| * |p|), which
\* orders like the cosine itself
NaN == [nan |-> TRUE, s |-> 0, d |-> 1]

cosine_similarity(q, p) ==
    IF Norm2(q) * Norm2(p) = 0 THEN NaN
    ELSE [nan |-> FALSE, s |-> Sign(Dot(q, p)) * Dot(q, p) * Dot(q, p),
          d |-> Norm2(q) * Norm2(p)]

\* x < y on floats: false whenever one side is NaN
SimLT(x, y) == ~x.nan /\ ~y.nan /\ x.s * y.d < y.s * x.d

\* the similarities list: one entry per row whose embedding has the query's
\* length (np.dot raises on any other, and the row is skipped)
RECURSIVE similarities(_, _)
similarities(rows, q) ==
    IF rows = <<>> THEN <<>>
    ELSE (IF Len(Head(rows).embedding) = Len(q)
          THEN <<[uuid |-> Head(rows).uuid, description |-> Head(rows).description,
                  similarity |-> cosine_similarity(q, Head(rows).embedding)]>>
          ELSE <<>>)
         \o similarities(Tail(rows), q)

\* list.sort on fewer than 64 items: the leading run is found by count_run
\* (reversed when strictly descending), the rest is inserted by binarysort
RECURSIVE RunEnd(_, _, _)
RunEnd(s, k, descending) ==
    IF k > Len(s) THEN k - 1
    ELSE IF SimLT(s[k].similarity, s[k - 1].similarity) = descending
         THEN RunEnd(s, k + 1, descending)
         ELSE k - 1

RECURSIVE BinarySearch(_, _, _, _)
BinarySearch(s, pivot, l, r) ==
    IF l >= r THEN l
    ELSE LET p == l + ((r - l) \div 2)
         IN IF SimLT(pivot.similarity, s[p].similarity)
            THEN BinarySearch(s, pivot, l, p)
            ELSE BinarySearch(s, pivot, p + 1, r)

RECURSIVE binarysort(_, _)
binarysort(s, start) ==
    IF start > Len(s) THEN s
    ELSE LET pivot == s[start]
             l == BinarySearch(s, pivot, 1, start)
             moved == [k \in 1..Len(s) |->
                          IF k < l \/ k > start THEN s[k]
                          ELSE IF k = l THEN pivot
                          ELSE s[k - 1]]
         IN binarysort(moved, start + 1)

sort_ascending(s) ==
    IF Len(s) < 2 THEN s
    ELSE LET descending == SimLT(s[2].similarity, s[1].similarity)
             n == RunEnd(s, 3, descending)
             run0 == IF descending
                     THEN [k \in 1..Len(s) |-> IF k <= n THEN s[n + 1 - k] ELSE s[k]]
                     ELSE s
         IN binarysort(run0, n + 1)

\* similarities.sort(key=similarity, reverse=True): reverse, sort, reverse
sort_by_similarity_Unstable(s) == Reverse(sort_ascending(s))

sort_by_similarity(s) == Reverse(sort_ascending(Reverse(s)))

\* the slice s[:n] of Python, negative n included
Slice(s, n) ==
    IF n >= 0 THEN SubSeq(s, 1, Min(n, Len(s)))
    ELSE SubSeq(s, 1, Max(Len(s) + n, 0))

\* search_photos on the rows of photo_index: the top n_results entries; the
\* distance reported with each entry is 1 - similarity
search_photos(rows, query, n_results) ==
    IF rows = <<>> THEN <<>>
    ELSE Slice(sort_by_similarity(similarities(rows, Embed(query))), n_results)

-----------------------------------------------------------------------------
(* Initial state: empty stores, no process running *)

Idle == [pc |-> "idle"]
NoOp == [op |-> "none", args |-> <<>>, ret |-> <<>>]

Init ==
    /\ library \in [PhotoIds -> Images]
    /\ photo_index = <<>>
    /\ index_metadata = NoDatabase
    /\ photos = [p \in PhotoIds |-> [has_face_data |-> FALSE, num_faces |-> 0]]
    /\ faces = <<>>
    /\ cluster_stats = NoStats
    /\ run = Idle
    /\ lab = Idle
    /\ seen = <<>>
    /\ last = NoOp
    /\ ops = 0
    /\ indexing_jobs = <<>>
    /\ job_cancel_flags = <<>>
    /\ task = <<>>
    /\ indexed_cache = {}

-----------------------------------------------------------------------------
(* Whole operations on the face store *)

\* index_faces(limit, reindex, min_confidence)
IndexFaces(limit, reindex, min_confidence) ==
    LET todo == photos_to_process(photos, reindex, limit)
    IN /\ ops < MaxOps
       /\ run.pc = "idle" /\ lab.pc = "idle"
       /\ faces' = IndexLoopFaces(faces, todo, library, min_confidence, 1)
       /\ photos' = IndexLoopPhotos(photos, todo, library, min_confidence)
       /\ last' = [op |-> "index_faces",
                   args |-> [limit |-> limit, reindex |-> reindex,
                             min_confidence |-> min_confidence],
                   ret |-> Len(todo)]
       /\ ops' = ops + 1
       /\ UNCHANGED <<jobvars, library, photo_index, index_metadata, cluster_stats, run, lab, seen>>

ClusterOutcome_NoAbort(fs, incremental) ==
    IF NothingToCluster(fs, incremental) THEN "nothing_new" ELSE "done"

\* how a run of cluster_faces ends: sys.exit(1) on an empty collection, the
\* early return of incremental mode, or a completed run
ClusterOutcome(fs, incremental) ==
    IF Len(fs) = 0 THEN "exit"
    ELSE IF NothingToCluster(fs, incremental) THEN "nothing_new"
    ELSE "done"

\* unclustered_mask.sum(), which an incremental run that goes on reports
NewFaces(metadatas, incremental) ==
    IF incremental
    THEN Cardinality({k \in 1..Len(metadatas) : metadatas[k].cluster_id = -1})
    ELSE 0

\* cluster_faces(threshold, min_cluster_size, incremental), run alone
ClusterRun(threshold, min_cluster_size, incremental) ==
    /\ ops < MaxOps
    /\ run.pc = "idle" /\ lab.pc = "idle"
    /\ faces' = cluster_faces(faces, threshold, min_cluster_size, incremental)
    /\ cluster_stats' =
          IF ClusterOutcome(faces, incremental) = "done"
          THEN ClusterStats(DBSCAN(Embeddings(faces), threshold, min_cluster_size))
          ELSE cluster_stats
    /\ last' = [op |-> "cluster",
                args |-> [threshold |-> threshold, min_cluster_size |-> min_cluster_size,
                          incremental |-> incremental],
                ret |-> [outcome |-> ClusterOutcome(faces, incremental),
                         new_faces |-> NewFaces(faces, incremental)]]
    /\ ops' = ops + 1
    /\ UNCHANGED <<jobvars, library, photo_index, index_metadata, photos, run, lab, seen>>

\* POST /api/label {cluster_id, label}, handled alone; `again` notes that the
\* request repeats the one handled just before
LabelCluster(cluster_id, label) ==
    /\ ops < MaxOps
    /\ run.pc = "idle" /\ lab.pc = "idle"
    /\ faces' = LabelFaces(faces, cluster_id, label)
    /\ last' = [op |-> "label",
                args |-> [cluster_id |-> cluster_id, label |-> label],
                success |-> TRUE,
                ret |-> updated_count(faces, cluster_id),
                again |-> (last.op = "label"
                           /\ last.args = [cluster_id |-> cluster_id, label |-> label])]
    /\ ops' = ops + 1
    /\ UNCHANGED <<jobvars, library, photo_index, index_metadata, photos, cluster_stats, run, lab, seen>>

NextFaces ==
    \/ \E limit \in 0..1, reindex \in BOOLEAN, c \in MinConfidences :
          IndexFaces(limit, reindex, c)
    \/ \E t \in Thresholds, m \in MinSizes, inc \in BOOLEAN : ClusterRun(t, m, inc)
    \/ \E c \in LabelCids, n \in Names : LabelCluster(c, n)
    \/ LabelCluster(0, EmptyName)

\* the face store under whole operations, one at a time
SpecFaces == Init /\ [][NextFaces]_vars

\* a step that is one whole operation `op`
StepOf(op) == ops' = ops + 1 /\ last'.op = op

\* the face store when label requests respect the precondition cluster_id # -1
NextFacesValid ==
    \/ \E limit \in 0..1, reindex \in BOOLEAN, c \in MinConfidences :
          IndexFaces(limit, reindex, c)
    \/ \E t \in Thresholds, m \in MinSizes, inc \in BOOLEAN : ClusterRun(t, m, inc)
    \/ \E c \in LabelCids \ {-1}, n \in Names : LabelCluster(c, n)

SpecFacesValid == Init /\ [][NextFacesValid]_vars

-----------------------------------------------------------------------------
(* Whole operations on the photo index *)

\* SharedPhotoIndex().index_photo commits the row and the total_photos
\* counter in one transaction and returns True
IndexPhoto(uuid, v, embedding) ==
    /\ ops < MaxOps
    /\ photo_index' = index_photo(photo_index, uuid, v, embedding)
    /\ index_metadata' = [initialize_database(index_metadata)
                             EXCEPT !.total_photos = Len(photo_index')]
    /\ last' = [op |-> "index_photo",
                args |-> [uuid |-> uuid, v |-> v, embedding |-> embedding],
                ret |-> TRUE]
    /\ ops' = ops + 1
    /\ UNCHANGED <<jobvars, library, photos, faces, cluster_stats, run, lab, seen>>

\* index_photo when sqlite raises before the commit: nothing is written and
\* the call returns False
IndexPhotoFails(uuid, v, embedding) ==
    /\ ops < MaxOps
    /\ index_metadata' = initialize_database(index_metadata)
    /\ last' = [op |-> "index_photo",
                args |-> [uuid |-> uuid, v |-> v, embedding |-> embedding],
                ret |-> FALSE]
    /\ ops' = ops + 1
    /\ UNCHANGED <<jobvars, library, photo_index, photos, faces, cluster_stats, run, lab, seen>>

\* SharedPhotoIndex().get_stats, and its error report when the read fails
GetStats ==
    /\ ops < MaxOps
    /\ index_metadata' = initialize_database(index_metadata)
    /\ \E failed \in BOOLEAN :
          last' = [op |-> "get_stats", args |-> <<>>,
                   ret |-> IF failed THEN StatsError ELSE get_stats(photo_index)]
    /\ ops' = ops + 1
    /\ UNCHANGED <<jobvars, library, photo_index, photos, faces, cluster_stats, run, lab, seen>>

\* search_photos(query, n_results), which opens the index with
\* SharedPhotoIndex() before it reads; `again` notes that the call repeats
\* the one made just before. The call returns a list whatever the rows hold:
\* a row whose similarity cannot be computed is logged and skipped
Search(query, n_results) ==
    /\ ops < MaxOps
    /\ index_metadata' = initialize_database(index_metadata)
    /\ last' = [op |-> "search",
                args |-> [query |-> query, n_results |-> n_results],
                ret |-> search_photos(photo_index, query, n_results),
                raised |-> FALSE,
                again |-> (last.op = "search"
                           /\ last.args = [query |-> query, n_results |-> n_results])]
    /\ ops' = ops + 1
    /\ UNCHANGED <<jobvars, library, photo_index, photos, faces, cluster_stats, run, lab, seen>>

\* the photo index under upserts and statistics queries
NextIndex ==
    \/ \E u \in Uuids, v \in Versions, e \in GoodVecs : IndexPhoto(u, v, e)
    \/ \E u \in Uuids, v \in Versions, e \in GoodVecs : IndexPhotoFails(u, v, e)
    \/ GetStats

SpecIndex == Init /\ [][NextIndex]_vars

\* the photo index under upserts of any embedding and searches
NextSearch ==
    \/ \E u \in Uuids, e \in PhotoVecs : IndexPhoto(u, 1, e)
    \/ \E q \in Queries, n \in Limits : Search(q, n)

SpecSearch == Init /\ [][NextSearch]_vars

-----------------------------------------------------------------------------
(* The clustering process and the web server running side by side: the
   clustering run works on the snapshot it loaded and writes it back batch by
   batch; the label handler works on the snapshot it scanned and writes it
   back face by face; the server handles one request at a time *)

\* cluster_faces up to the end of DBSCAN: the load and the clustering work on
\* process-local data; `seen` keeps what the load read and the stage the
\* clustering run and the label handler were at
ClusterLoad(threshold, min_cluster_size, incremental) ==
    /\ ops < MaxOps
    /\ run.pc = "idle"
    /\ ops' = ops + 1
    /\ IF ClusterOutcome(faces, incremental) = "done"
       THEN /\ run' = [pc |-> "persist",
                       metadatas |-> faces,
                       cluster_labels |-> DBSCAN(Embeddings(faces), threshold,
                                                 min_cluster_size),
                       i |-> 0,
                       args |-> [threshold |-> threshold,
                                 min_cluster_size |-> min_cluster_size,
                                 incremental |-> incremental]]
            /\ UNCHANGED last
       ELSE /\ last' = [op |-> "cluster",
                        args |-> [threshold |-> threshold,
                                  min_cluster_size |-> min_cluster_size,
                                  incremental |-> incremental],
                        ret |-> [outcome |-> ClusterOutcome(faces, incremental),
                                 new_faces |-> 0]]
            /\ UNCHANGED run
    /\ seen' = [all_faces |-> faces, run |-> run, lab |-> lab]
    /\ UNCHANGED <<jobvars, library, photo_index, index_metadata, photos, faces,
                   cluster_stats, lab>>

\* one faces_collection.update of the loop over batches
ClusterPersistBatch ==
    /\ run.pc = "persist"
    /\ run.i < Len(run.metadatas)
    /\ faces' = PersistLabels(faces, run.metadatas, run.cluster_labels,
                              run.i + 1, Min(run.i + batch_size, Len(run.metadatas)))
    /\ run' = [run EXCEPT !.i = run.i + batch_size]
    /\ UNCHANGED <<jobvars, library, photo_index, index_metadata, photos, cluster_stats,
                   lab, seen, last, ops>>

\* after the last batch: the statistics file and the end of the run
ClusterFinish ==
    /\ run.pc = "persist"
    /\ run.i >= Len(run.metadatas)
    /\ cluster_stats' = ClusterStats(run.cluster_labels)
    /\ last' = [op |-> "cluster", args |-> run.args,
                ret |-> [outcome |-> "done",
                         new_faces |-> NewFaces(run.metadatas, run.args.incremental)]]
    /\ run' = Idle
    /\ UNCHANGED <<jobvars, library, photo_index, index_metadata, photos, faces, lab, seen, ops>>

\* POST /api/label: the faces_collection.get the handler starts with; `seen`
\* keeps what a request read and the stage the clustering run was at
LabelScan(cluster_id, label) ==
    /\ ops < MaxOps
    /\ lab.pc = "idle"
    /\ lab' = [pc |-> "update", all_faces |-> faces, k |-> 0,
               cluster_id |-> cluster_id, label |-> label, updated_count |-> 0]
    /\ seen' = [all_faces |-> faces, run |-> run, lab |-> lab]
    /\ ops' = ops + 1
    /\ UNCHANGED <<jobvars, library, photo_index, index_metadata, photos, faces,
                   cluster_stats, run, last>>

\* the entries of the scanned snapshot, after position k, that match
Matching(l) ==
    {j \in (l.k + 1)..Len(l.all_faces) : l.all_faces[j].cluster_id = l.cluster_id}

\* faces_collection.update(ids=[face_id], metadatas=[metadata]): the stored
\* metadata of that face becomes the given one
UpdateMetadata(fs, metadata) ==
    [k \in 1..Len(fs) |->
        IF FaceId(fs[k]) = FaceId(metadata)
        THEN [metadata EXCEPT !.embedding = fs[k].embedding]
        ELSE fs[k]]

\* the loop of the handler up to and including its next update
LabelUpdate ==
    /\ lab.pc = "update"
    /\ Matching(lab) # {}
    /\ LET j == CHOOSE j \in Matching(lab) : \A o \in Matching(lab) : j <= o
       IN /\ faces' = UpdateMetadata(faces,
                         [lab.all_faces[j] EXCEPT !.person_name = lab.label])
          /\ lab' = [lab EXCEPT !.k = j, !.updated_count = lab.updated_count + 1]
    /\ UNCHANGED <<jobvars, library, photo_index, index_metadata, photos, cluster_stats,
                   run, seen, last, ops>>

\* the response of the handler; `labelled` notes the faces the request
\* updated, `before_persist` that the response went out while a clustering
\* run had loaded the faces and not yet written any batch
LabelRespond ==
    /\ lab.pc = "update"
    /\ Matching(lab) = {}
    /\ last' = [op |-> "label",
                args |-> [cluster_id |-> lab.cluster_id, label |-> lab.label],
                success |-> TRUE,
                ret |-> lab.updated_count,
                labelled |-> {FaceId(lab.all_faces[j]) :
                                 j \in {n \in 1..Len(lab.all_faces) :
                                           lab.all_faces[n].cluster_id = lab.cluster_id}},
                before_persist |-> (run.pc = "persist" /\ run.i = 0)]
    /\ lab' = Idle
    /\ UNCHANGED <<jobvars, library, photo_index, index_metadata, photos, faces,
                   cluster_stats, run, seen, ops>>

\* faces_collection.update raises inside the loop: the handler has no except
\* clause, the request dies without a response and nothing is undone
LabelFails ==
    /\ lab.pc = "update"
    /\ Matching(lab) # {}
    /\ last' = [op |-> "label_failed",
                args |-> [cluster_id |-> lab.cluster_id, label |-> lab.label],
                ret |-> lab.updated_count]
    /\ lab' = Idle
    /\ UNCHANGED <<jobvars, library, photo_index, index_metadata, photos, faces,
                   cluster_stats, run, seen, ops>>

\* faces_collection.update raises inside the loop over batches: cluster_faces
\* catches nothing, the process dies with the traceback and the batches
\* already updated stay as written
ClusterPersistFails ==
    /\ run.pc = "persist"
    /\ run.i < Len(run.metadatas)
    /\ last' = [op |-> "cluster_failed", args |-> run.args,
                ret |-> [outcome |-> "error", new_faces |-> 0]]
    /\ run' = Idle
    /\ UNCHANGED <<jobvars, library, photo_index, index_metadata, photos, faces,
                   cluster_stats, lab, seen, ops>>

\* GET /api/clusters: the cluster and the name of every face, as the listing
\* groups them, read while the server handles no other request
ListClusters ==
    /\ ops < MaxOps
    /\ lab.pc = "idle"
    /\ seen' = [all_faces |-> faces, run |-> run, lab |-> lab]
    /\ ops' = ops + 1
    /\ UNCHANGED <<jobvars, library, photo_index, index_metadata, photos, faces,
                   cluster_stats, run, lab, last>>

NextConc ==
    \/ \E c \in MinConfidences : IndexFaces(0, FALSE, c)
    \/ \E t \in Thresholds, m \in MinSizes \ {3}, inc \in BOOLEAN : ClusterLoad(t, m, inc)
    \/ ClusterPersistBatch
    \/ ClusterFinish
    \/ ClusterPersistFails
    \/ \E c \in LabelCids \ {-1, 2}, n \in Names : LabelScan(c, n)
    \/ LabelUpdate
    \/ LabelRespond
    \/ LabelFails
    \/ ListClusters

SpecConc == Init /\ [][NextConc]_vars

\* a snapshot of the collection, taken while the run r was going on, in which
\* one face carries the cluster_id the run computed for it and another still
\* carries the cluster_id the run loaded, each of them changed by the run
MixedRuns(all_faces, r) ==
    /\ r.pc = "persist"
    /\ \E j1, j2 \in 1..Len(r.metadatas) :
          /\ r.cluster_labels[j1] # r.metadatas[j1].cluster_id
          /\ r.cluster_labels[j2] # r.metadatas[j2].cluster_id
          /\ \E k \in 1..Len(all_faces) :
                /\ FaceId(all_faces[k]) = FaceId(r.metadatas[j1])
                /\ all_faces[k].cluster_id = r.cluster_labels[j1]
          /\ \E k \in 1..Len(all_faces) :
                /\ FaceId(all_faces[k]) = FaceId(r.metadatas[j2])
                /\ all_faces[k].cluster_id = r.metadatas[j2].cluster_id

\* C10: neither a cluster listing nor the scan of a label request observes
\* some faces with the cluster_id of the run that is persisting and others
\* with the cluster_id that run replaces.
C10_PersistenceIsOneTransaction ==
    seen # <<>> => ~MixedRuns(seen.all_faces, seen.run)

\* the members of the cluster a label request scanned
ScannedMembers(l) ==
    {j \in 1..Len(l.all_faces) : l.all_faces[j].cluster_id = l.cluster_id}

\* the name the store fs holds for the face the request scanned at position j
NameIn(fs, l, j) ==
    LET k == CHOOSE k \in 1..Len(fs) : FaceId(fs[k]) = FaceId(l.all_faces[j])
    IN fs[k].person_name

\* in the store fs, the label request l has renamed one member of the cluster
\* it scanned and not yet another
PartlyLabelled(fs, l) ==
    /\ l.pc = "update"
    /\ \E j1, j2 \in ScannedMembers(l) :
          /\ j1 <= l.k
          /\ l.all_faces[j1].person_name # l.label
          /\ NameIn(fs, l, j1) = l.label
          /\ j2 > l.k
          /\ NameIn(fs, l, j2) # l.label

\* C11: no read of the collection made while a label request is being
\* handled finds some members of its cluster renamed and others not, and a
\* request that fails part-way leaves every member with the name it had.
C11_LabelIsAtomic ==
    /\ [](seen # <<>> => ~PartlyLabelled(seen.all_faces, seen.lab))
    /\ [][(lab.pc = "update" /\ last'.op = "label_failed" /\ lab'.pc = "idle") =>
            \A j \in ScannedMembers(lab) :
                NameIn(faces', lab, j) = lab.all_faces[j].person_name]_vars

-----------------------------------------------------------------------------
(* Claims about search and the photo index *)

\* the photos a result list holds
Returned(ret) == {ret[k].uuid : k \in 1..Len(ret)}

\* the cosine of the query and a stored embedding is defined and comparable
HasCosine(q, row) == Len(row.embedding) = Len(q) /\ Norm2(q) * Norm2(row.embedding) # 0

\* cosine(q, a) > cosine(q, b), for embeddings with a cosine
CosineGreater(q, a, b) ==
    Sign(Dot(q, a)) * Dot(q, a) * Dot(q, a) * Norm2(b)
       > Sign(Dot(q, b)) * Dot(q, b) * Dot(q, b) * Norm2(a)

RowOf(rows, uuid) == rows[CHOOSE k \in 1..Len(rows) : rows[k].uuid = uuid]

\* C2: whenever two photos are both in a search result and the first has the
\* greater cosine with the query, it comes before the other.
C2_DescendingSimilarity ==
    last.op = "search" =>
        LET q == Embed(last.args.query)
            ret == last.ret
        IN \A i, j \in 1..Len(ret) :
              LET a == RowOf(photo_index, ret[i].uuid)
                  b == RowOf(photo_index, ret[j].uuid)
              IN (HasCosine(q, a) /\ HasCosine(q, b)
                  /\ CosineGreater(q, a.embedding, b.embedding)) => i < j

\* C3: a search with limit > 0 over N indexed photos returns exactly
\* min(limit, N) results, the photos of highest similarity; over an empty
\* index it returns the empty list.
C3_TopLimitResults ==
    (last.op = "search" /\ last.args.n_results > 0) =>
        LET q == Embed(last.args.query)
            ret == last.ret
        IN /\ Len(ret) = Min(last.args.n_results, Len(photo_index))
           /\ Cardinality(Returned(ret)) = Len(ret)
           /\ \A k \in 1..Len(photo_index) :
                 photo_index[k].uuid \notin Returned(ret) =>
                    \A u \in Returned(ret) :
                        ~(/\ HasCosine(q, photo_index[k])
                          /\ HasCosine(q, RowOf(photo_index, u))
                          /\ CosineGreater(q, photo_index[k].embedding,
                                           RowOf(photo_index, u).embedding))
           /\ photo_index = <<>> => ret = <<>>

RowsOf(rows, uuid) == {k \in 1..Len(rows) : rows[k].uuid = uuid}

-----------------------------------------------------------------------------
(* Claims about labelling and clustering, under SpecFaces *)


Members(fs, c) == {k \in 1..Len(fs) : fs[k].cluster_id = c}

\* C1: label_cluster(c, name) sets person_name = name on exactly the faces
\* whose cluster_id is c, leaves every other face as it was, and returns the
\* number of faces it updated (0, and no change, when no face carries c).
C1_LabelExactlyMembers ==
    [][StepOf("label") =>
        LET c == last'.args.cluster_id
            name == last'.args.label
        IN /\ Len(faces') = Len(faces)
           /\ \A k \in 1..Len(faces) :
                 /\ k \in Members(faces, c) =>
                       faces'[k] = [faces[k] EXCEPT !.person_name = name]
                 /\ k \notin Members(faces, c) => faces'[k] = faces[k]
           /\ last'.ret = Cardinality(Members(faces, c))
           /\ Members(faces, c) = {} => last'.ret = 0 /\ faces' = faces]_vars

\* a label request renamed two faces of a cluster that already carried another
\* name and left a face outside the cluster alone
C1_Witness ==
    /\ last.op = "label"
    /\ last.ret = 2
    /\ last.args.cluster_id >= 0
    /\ \E k \in 1..Len(faces) :
          faces[k].cluster_id = last.args.cluster_id /\ faces[k].person_name = last.args.label
    /\ \E k \in 1..Len(faces) :
          faces[k].cluster_id # last.args.cluster_id /\ faces[k].person_name \notin {NoName, last.args.label}

\* the density notions of the claim, stated on the stored records
IsCorePoint(fs, i, e, m) ==
    Cardinality({j \in 1..Len(fs) : WithinEps(fs[i].embedding, fs[j].embedding, e)}) >= m

NearCorePoint(fs, i, e, m) ==
    \E j \in 1..Len(fs) :
        IsCorePoint(fs, j, e, m) /\ WithinEps(fs[i].embedding, fs[j].embedding, e)

\* C5: after a clustering run a face has cluster_id -1 exactly when it is
\* neither a core point nor within the threshold of one; every other face has
\* a non-negative cluster_id, and core points within the threshold of each
\* other share their cluster_id.
C5_NoiseIffNotDense ==
    (last.op = "cluster" /\ last.ret.outcome = "done") =>
        LET e == last.args.threshold
            m == last.args.min_cluster_size
        IN /\ \A i \in 1..Len(faces) :
                 /\ faces[i].cluster_id = -1 <=>
                       (~IsCorePoint(faces, i, e, m) /\ ~NearCorePoint(faces, i, e, m))
                 /\ faces[i].cluster_id >= -1
           /\ \A i, j \in 1..Len(faces) :
                 (/\ IsCorePoint(faces, i, e, m)
                  /\ IsCorePoint(faces, j, e, m)
                  /\ WithinEps(faces[i].embedding, faces[j].embedding, e))
                 => faces[i].cluster_id = faces[j].cluster_id

\* a run left a noise face next to a cluster that holds a border face (a
\* member that is no core point)
C5_Witness ==
    /\ last.op = "cluster" /\ last.ret.outcome = "done"
    /\ \E i \in 1..Len(faces) : faces[i].cluster_id = -1
    /\ \E i \in 1..Len(faces) :
          /\ faces[i].cluster_id >= 0
          /\ ~IsCorePoint(faces, i, last.args.threshold, last.args.min_cluster_size)

\* C6: an incremental run on a non-empty store with no face at cluster_id -1
\* returns without clustering and changes no face record.
C6_IncrementalNothingNew ==
    [][(/\ StepOf("cluster")
        /\ last'.args.incremental
        /\ Len(faces) > 0
        /\ \A k \in 1..Len(faces) : faces[k].cluster_id # -1)
       => (/\ faces' = faces
           /\ cluster_stats' = cluster_stats
           /\ last'.ret.outcome = "nothing_new")]_vars

\* an incremental run returned early on a store that a clustering pass with
\* the same parameters would have relabelled
C6_Witness ==
    /\ last.op = "cluster"
    /\ last.args.incremental
    /\ last.ret.outcome = "nothing_new"
    /\ Len(faces) > 0
    /\ \E k \in 1..Len(faces) :
          DBSCAN(Embeddings(faces), last.args.threshold, last.args.min_cluster_size)[k]
             # faces[k].cluster_id

MostFrequentNames(fs, members) ==
    LET count(n) == Cardinality({k \in members : fs[k].person_name = n})
        labelled == {fs[k].person_name : k \in members} \ {NoName}
    IN IF labelled = {} THEN {NoName}
       ELSE {n \in labelled : \A o \in labelled : count(n) >= count(o)}

\* C8: right after a completed clustering run all faces sharing a
\* non-negative cluster_id carry one person_name, the most frequent one among
\* the cluster's members (none when no member was labelled).
C8_MajorityVoteAfterRun ==
    [][(StepOf("cluster") /\ last'.ret.outcome = "done") =>
        \A c \in {faces'[k].cluster_id : k \in 1..Len(faces')} \ {-1} :
            \E n \in MostFrequentNames(faces, Members(faces', c)) :
                \A k \in Members(faces', c) : faces'[k].person_name = n]_vars

\* C9: no face record has cluster_id -1 together with a person_name.
C9_NoLabelledNoise ==
    \A k \in 1..Len(faces) :
        ~(faces[k].cluster_id = -1 /\ faces[k].person_name # NoName)

\* C12: a face record that exists before and after a step has its
\* cluster_id changed only by a clustering run and its person_name changed
\* only by a label request.
C12_FieldOwners ==
    [][\A k \in 1..Len(faces), n \in 1..Len(faces') :
          FaceId(faces[k]) = FaceId(faces'[n]) =>
             /\ faces'[n].cluster_id # faces[k].cluster_id => StepOf("cluster")
             /\ faces'[n].person_name # faces[k].person_name => StepOf("label")]_vars

\* the records of photo p in the store, as (face index, embedding) pairs
FacesOf(fs, p) ==
    {<<fs[k].face_index, fs[k].embedding>> : k \in {n \in 1..Len(fs) : fs[n].photo_uuid = p}}

\* C13: after a reindex pass the face records of every photo it processed
\* are exactly the faces detected in that pass, one per (photo id, face
\* index); no record of the earlier detection survives.
C13_ReindexReplacesFaces ==
    [][(StepOf("index_faces") /\ last'.args.reindex) =>
        LET a == last'.args
            todo == photos_to_process(photos, a.reindex, a.limit)
        IN /\ \A k \in 1..Len(todo) :
                 LET detected == Detected(library[todo[k]], a.min_confidence)
                 IN FacesOf(faces', todo[k]) =
                       {<<i - 1, detected[i].embedding>> : i \in 1..Len(detected)}
           /\ \A i, j \in 1..Len(faces') :
                 FaceId(faces'[i]) = FaceId(faces'[j]) => i = j]_vars

\* C14: a label request with cluster_id -1 or with an empty name is answered
\* with an error and changes no face's person_name.
C14_LabelRejectsBadInput ==
    [][(/\ StepOf("label")
        /\ (last'.args.cluster_id = -1 \/ last'.args.label = EmptyName))
       => (/\ ~last'.success
           /\ Len(faces') = Len(faces)
           /\ \A k \in 1..Len(faces) : faces'[k].person_name = faces[k].person_name)]_vars

C16_EmptyStoreAborts ==
    [][(StepOf("cluster") /\ Len(faces) = 0) =>
          /\ last'.ret.outcome = "exit"
          /\ cluster_stats' = cluster_stats
          /\ cluster_stats' = NoStats
          /\ faces' = faces]_vars

\* a run was started after an indexing pass that found no face, and aborted
C16_Witness ==
    /\ last.op = "cluster"
    /\ last.ret.outcome = "exit"
    /\ faces = <<>>
    /\ \E p \in PhotoIds : photos[p].has_face_data

\* C18: a search leaves the photo records and the index metadata as they
\* were before the call.
C18_SearchIsPureRead ==
    [][StepOf("search") =>
          (photo_index' = photo_index /\ index_metadata' = index_metadata)]_vars

\* the position of a photo's row in the table
RowPos(rows, uuid) == CHOOSE k \in 1..Len(rows) : rows[k].uuid = uuid

\* two computed similarities are the same number
SameSimilarity(x, y) == ~x.nan /\ ~y.nan /\ x.s * y.d = y.s * x.d

C19_DimensionMismatchFails ==
    (/\ last.op = "search"
     /\ \E k \in 1..Len(photo_index) :
           Len(photo_index[k].embedding) # Len(Embed(last.args.query)))
    => (last.raised /\ last.ret = <<>>)

\* C20: a photo whose stored embedding has zero norm gets similarity 0 in a
\* search result, and is ranked as a photo of similarity 0: after every photo
\* of positive similarity and before every photo of negative similarity.
C20_ZeroNormScoresZero ==
    last.op = "search" =>
        LET q == Embed(last.args.query)
            ret == last.ret
            zero(i) == Norm2(RowOf(photo_index, ret[i].uuid).embedding) = 0
        IN /\ ~last.raised
           /\ \A i \in 1..Len(ret) :
                 zero(i) => (~ret[i].similarity.nan /\ ret[i].similarity.s = 0)
           /\ \A i, j \in 1..Len(ret) :
                 (zero(i) /\ ~zero(j)) =>
                    /\ Dot(q, RowOf(photo_index, ret[j].uuid).embedding) > 0 => j < i
                    /\ Dot(q, RowOf(photo_index, ret[j].uuid).embedding) < 0 => i < j

\* C21: a search called with n_results <= 0 is rejected with an error and
\* returns no results; a negative n_results never gives a non-empty list.
C21_NonPositiveLimitRejected ==
    (last.op = "search" /\ last.args.n_results <= 0)
    => (last.raised /\ last.ret = <<>>)

\* the cluster_id the store fs holds for the face f
ClusterIn(fs, f) ==
    LET k == CHOOSE k \in 1..Len(fs) : FaceId(fs[k]) = FaceId(f)
    IN fs[k].cluster_id

\* a step in which index_photo fails leaves the rows and the counter alone
UpsertFailureKeepsStore ==
    (StepOf("index_photo") /\ last'.ret = FALSE) =>
        /\ photo_index' = photo_index
        /\ index_metadata'.total_photos = index_metadata.total_photos

\* a step in which the persistence of a clustering run fails leaves no face
\* with a cluster_id that run assigned
PersistFailureKeepsStore ==
    (run.pc = "persist" /\ last'.op = "cluster_failed" /\ run'.pc = "idle") =>
        \A j \in 1..Len(run.metadatas) :
            run.cluster_labels[j] # run.metadatas[j].cluster_id
               => ClusterIn(faces', run.metadatas[j]) # run.cluster_labels[j]

\* C22: a storage failure inside one index_photo upsert, or inside the
\* persistence phase of one clustering run, ends in an error outcome and
\* leaves the store as it was before the operation: no row, no counter and no
\* part of the run's cluster_id assignments stays written.
C22_FailureLeavesNoPartialState ==
    [][UpsertFailureKeepsStore /\ PersistFailureKeepsStore]_vars

-----------------------------------------------------------------------------
(* The indexing jobs of the MCP server (vibrant_frog_mcp.py) and the batch
   runs of the command-line indexers.  A job runs as an asyncio task: it
   gives up control only at the await inside index_photo_to_icloud, so
   everything between two awaits is one step *)

\* job ids start_indexing_job hands out (uuid4 values), in the order used
JobIds == {"j1", "j2"}
\* the images of the Apple Photos library, oldest first
PhotosLibrary == <<"u1", "u2">>
\* batch_size values a job is started with (0 stands for None)
BatchSizes == {0, 1}

\* the row a job or a command-line run writes for a photo
JobVersion == 1
JobEmbedding == <<1, 0>>

\* IndexingJob.__init__
IndexingJob(size, reverse_chronological) ==
    [status |-> "pending", batch_size |-> size,
     reverse_chronological |-> reverse_chronological,
     total_photos |-> 0, processed_photos |-> 0,
     completed_at |-> FALSE, error |-> FALSE, indexed_uuids |-> <<>>]

\* SharedPhotoIndex.get_indexed_uuids
get_indexed_uuids(rows) == {rows[k].uuid : k \in 1..Len(rows)}

\* [p for p in photos if p.uuid not in indexed_uuids]
RECURSIVE FilterIndexed(_, _, _)
FilterIndexed(ps, indexed_uuids, k) ==
    IF k > Len(ps) THEN <<>>
    ELSE (IF ps[k] \in indexed_uuids THEN <<>> ELSE <<ps[k]>>)
         \o FilterIndexed(ps, indexed_uuids, k + 1)

\* the photos a run works through: sorted by date, the indexed ones dropped,
\* cut to the first `size` when a batch size or limit is given
photos_to_index(indexed_uuids, size, reverse_chronological) ==
    LET sorted == IF reverse_chronological THEN Reverse(PhotosLibrary) ELSE PhotosLibrary
        new == FilterIndexed(sorted, indexed_uuids, 1)
    IN IF size # 0 THEN SubSeq(new, 1, Min(size, Len(new))) ELSE new

loop_head_NoStamp(job, t, cancel, cache) ==
    IF t.i > Len(t.photos)
    THEN [job |-> [job EXCEPT !.status = "completed", !.completed_at = TRUE],
          task |-> [t EXCEPT !.pc = "done"],
          cache |-> t.indexed_uuids]
    ELSE IF cancel
    THEN [job |-> [job EXCEPT !.status = "cancelled"],
          task |-> [t EXCEPT !.pc = "done"],
          cache |-> t.indexed_uuids]
    ELSE [job |-> [job EXCEPT !.processed_photos = t.i - 1],
          task |-> [t EXCEPT !.pc = "await"],
          cache |-> cache]

\* run_indexing_job_background from the top of the for loop to the next
\* await or to the end of the task: the loop ends when the photos are used
\* up (completed, final cache save), else the cancel flag is looked at
\* (cancelled, cache save), else the next photo is taken up. t.i is the
\* 1-based position of the next photo; the cache file is overwritten with
\* the task's own indexed_uuids
loop_head(job, t, cancel, cache) ==
    IF t.i > Len(t.photos)
    THEN [job |-> [job EXCEPT !.status = "completed", !.completed_at = TRUE],
          task |-> [t EXCEPT !.pc = "done"],
          cache |-> t.indexed_uuids]
    ELSE IF cancel
    THEN [job |-> [job EXCEPT !.status = "cancelled", !.completed_at = TRUE],
          task |-> [t EXCEPT !.pc = "done"],
          cache |-> t.indexed_uuids]
    ELSE [job |-> [job EXCEPT !.processed_photos = t.i - 1],
          task |-> [t EXCEPT !.pc = "await"],
          cache |-> cache]

\* a task is between its first statement and its first await: the event loop
\* runs nothing else of the server until it gets there
TaskRunning == \E j \in DOMAIN task : task[j].pc = "setup"

\* str(uuid.uuid4()): an id no job has yet, as long as there is one
NewJobId(jobs) == IF "j1" \notin DOMAIN jobs THEN "j1" ELSE "j2"

\* start_indexing_job: a new IndexingJob, its cancel flag and its task
StartIndexingJob(job_id, size, reverse_chronological) ==
    /\ ops < MaxOps
    /\ ~TaskRunning
    /\ job_id \notin DOMAIN indexing_jobs
    /\ indexing_jobs' = indexing_jobs @@ (job_id :> IndexingJob(size, reverse_chronological))
    /\ job_cancel_flags' = job_cancel_flags @@ (job_id :> FALSE)
    /\ task' = task @@ (job_id :> [pc |-> "start"])
    /\ last' = [op |-> "start_indexing_job", args |-> [job_id |-> job_id], ret |-> "started"]
    /\ ops' = ops + 1
    /\ UNCHANGED <<library, photo_index, index_metadata, photos, faces,
                   cluster_stats, run, lab, seen, indexed_cache>>

\* the event loop starts the task of a job: job.status = "running". The
\* task goes on without an await; its first statement is a step of its own
\* so that the status the job passes through is a state
JobBegin(job_id) ==
    /\ ~TaskRunning
    /\ job_id \in DOMAIN task
    /\ task[job_id].pc = "start"
    /\ indexing_jobs' = [indexing_jobs EXCEPT ![job_id].status = "running"]
    /\ task' = [task EXCEPT ![job_id] = [pc |-> "setup"]]
    /\ last' = [op |-> "job_begin", args |-> [job_id |-> job_id], ret |-> "running"]
    /\ UNCHANGED <<library, photo_index, index_metadata, photos, faces,
                   cluster_stats, run, lab, seen, ops, job_cancel_flags, indexed_cache>>

\* the task of a job up to its first await: the index is opened, the cache
\* is loaded, the photos are chosen and the loop is entered
JobSetup(job_id) ==
    /\ job_id \in DOMAIN task
    /\ task[job_id].pc = "setup"
    /\ LET job == indexing_jobs[job_id]
           indexed_uuids == indexed_cache
           todo == photos_to_index(indexed_uuids, job.batch_size, job.reverse_chronological)
           job1 == [job EXCEPT !.total_photos = Len(todo)]
           t == [pc |-> "run", photos |-> todo, i |-> 1, indexed_uuids |-> indexed_uuids]
           nxt == loop_head(job1, t, job_cancel_flags[job_id], indexed_cache)
       IN /\ indexing_jobs' = [indexing_jobs EXCEPT ![job_id] = nxt.job]
          /\ task' = [task EXCEPT ![job_id] = nxt.task]
          /\ indexed_cache' = nxt.cache
    /\ index_metadata' = initialize_database(index_metadata)
    /\ last' = [op |-> "job_setup", args |-> [job_id |-> job_id], ret |-> "begun"]
    /\ UNCHANGED <<library, photo_index, photos, faces, cluster_stats, run, lab,
                   seen, ops, job_cancel_flags>>

\* the task of a job when opening the Photos library raises: the outer except
\* marks the job failed
JobSetupFails(job_id) ==
    /\ job_id \in DOMAIN task
    /\ task[job_id].pc = "setup"
    /\ indexing_jobs' = [indexing_jobs EXCEPT ![job_id] =
                            [@ EXCEPT !.status = "failed", !.error = TRUE,
                                      !.completed_at = TRUE]]
    /\ task' = [task EXCEPT ![job_id] = [pc |-> "done"]]
    /\ index_metadata' = initialize_database(index_metadata)
    /\ last' = [op |-> "job_setup", args |-> [job_id |-> job_id], ret |-> "failed"]
    /\ UNCHANGED <<library, photo_index, photos, faces, cluster_stats, run, lab,
                   seen, ops, job_cancel_flags, indexed_cache>>

\* the task of a job from the return of its await to the next await or to its
\* end. With ok the photo was described and index_photo committed its row:
\* the uuid joins the job's list and the task's set, and the cache file is
\* saved; without ok index_photo_to_icloud returned None (no path, a
\* description timeout, a failed write). Then the loop goes on
JobResume(job_id, ok) ==
    /\ ~TaskRunning
    /\ job_id \in DOMAIN task
    /\ task[job_id].pc = "await"
    /\ LET job == indexing_jobs[job_id]
           t == task[job_id]
           uuid == t.photos[t.i]
           indexed_uuids == IF ok THEN t.indexed_uuids \cup {uuid} ELSE t.indexed_uuids
           job1 == [job EXCEPT !.indexed_uuids = IF ok THEN Append(@, uuid) ELSE @,
                               !.processed_photos = t.i]
           t1 == [t EXCEPT !.indexed_uuids = indexed_uuids, !.i = t.i + 1]
           nxt == loop_head(job1, t1, job_cancel_flags[job_id],
                            IF ok THEN indexed_uuids ELSE indexed_cache)
       IN /\ photo_index' = IF ok THEN index_photo(photo_index, uuid, JobVersion, JobEmbedding)
                                  ELSE photo_index
          /\ index_metadata' = IF ok THEN [index_metadata EXCEPT !.total_photos = Len(photo_index')]
                                     ELSE index_metadata
          /\ indexing_jobs' = [indexing_jobs EXCEPT ![job_id] = nxt.job]
          /\ task' = [task EXCEPT ![job_id] = nxt.task]
          /\ indexed_cache' = nxt.cache
          /\ last' = [op |-> "job_photo", args |-> [job_id |-> job_id, uuid |-> uuid],
                      ret |-> ok, newly_indexed |-> IF ok THEN <<uuid>> ELSE <<>>]
    /\ UNCHANGED <<library, photos, faces, cluster_stats, run, lab, seen, ops,
                   job_cancel_flags>>

\* job_cancel_flags[job_id] = True
cancel_job(flags, job_id) == [flags EXCEPT ![job_id] = TRUE]

\* the cancel_job tool, for a job that exists
CancelJob(job_id) ==
    /\ ops < MaxOps
    /\ ~TaskRunning
    /\ job_id \in DOMAIN indexing_jobs
    /\ job_cancel_flags' = cancel_job(job_cancel_flags, job_id)
    /\ last' = [op |-> "cancel_job", args |-> [job_id |-> job_id], ret |-> "requested"]
    /\ ops' = ops + 1
    /\ UNCHANGED <<library, photo_index, index_metadata, photos, faces,
                   cluster_stats, run, lab, seen, indexing_jobs, task, indexed_cache>>

\* the loop of poll_and_index_icloud: index_photo_to_icloud on each photo of
\* todo in turn; a photo in `failing` gives None and the loop goes on
RECURSIVE icloud_loop(_, _, _, _)
icloud_loop(rows, todo, failing, k) ==
    IF k > Len(todo) THEN rows
    ELSE icloud_loop(IF todo[k] \in failing THEN rows
                     ELSE index_photo(rows, todo[k], JobVersion, JobEmbedding),
                     todo, failing, k + 1)

\* one run of index_photos_icloud.py: the photos not yet in the SQLite index,
\* newest first, cut to the limit (0 stands for None); the run keeps no cache
\* file
PollAndIndexIcloud(limit, failing) ==
    LET todo == photos_to_index(get_indexed_uuids(photo_index), limit, TRUE)
    IN /\ ops < MaxOps
       /\ failing \subseteq {todo[k] : k \in 1..Len(todo)}
       /\ photo_index' = icloud_loop(photo_index, todo, failing, 1)
       /\ index_metadata' =
             IF photo_index' # photo_index
             THEN [initialize_database(index_metadata) EXCEPT !.total_photos = Len(photo_index')]
             ELSE initialize_database(index_metadata)
       /\ last' = [op |-> "poll_and_index_icloud",
                   args |-> [limit |-> limit, failing |-> failing],
                   ret |-> Len(todo),
                   newly_indexed |-> FilterIndexed(todo, failing, 1)]
       /\ ops' = ops + 1
       /\ UNCHANGED <<jobvars, library, photos, faces, cluster_stats, run, lab, seen>>

\* index_faces when process_photo_for_faces raises on photo k of the batch
\* (the detector or the upsert fails): the function has a finally clause and
\* no except clause, and index_faces calls it outside any try, so the run
\* ends there with the photos before k processed
IndexFacesFails(limit, reindex, min_confidence, k) ==
    LET todo == photos_to_process(photos, reindex, limit)
        before == SubSeq(todo, 1, k - 1)
    IN /\ ops < MaxOps
       /\ run.pc = "idle" /\ lab.pc = "idle"
       /\ k \in 1..Len(todo)
       /\ faces' = IndexLoopFaces(faces, before, library, min_confidence, 1)
       /\ photos' = IndexLoopPhotos(photos, before, library, min_confidence)
       /\ last' = [op |-> "index_faces",
                   args |-> [limit |-> limit, reindex |-> reindex,
                             min_confidence |-> min_confidence],
                   ret |-> k - 1]
       /\ ops' = ops + 1
       /\ UNCHANGED <<jobvars, library, photo_index, index_metadata, cluster_stats,
                      run, lab, seen>>

NextBatch ==
    \/ \E size \in BatchSizes, rev \in BOOLEAN :
          StartIndexingJob(NewJobId(indexing_jobs), size, rev)
    \/ \E j \in JobIds : JobBegin(j)
    \/ \E j \in JobIds : JobSetup(j)
    \/ \E j \in JobIds : JobSetupFails(j)
    \/ \E j \in JobIds, ok \in BOOLEAN : JobResume(j, ok)
    \/ \E j \in JobIds : CancelJob(j)
    \/ \E limit \in BatchSizes, failing \in SUBSET {"u1", "u2"} :
          PollAndIndexIcloud(limit, failing)

\* the photo indexers never look at the face images, so one library stands
\* for all of them
InitBatch == Init /\ library = [p \in PhotoIds |-> ImgNone]

\* the photo indexers: indexing jobs of the MCP server interleaving at their
\* awaits, and runs of the iCloud indexer
SpecBatch == InitBatch /\ [][NextBatch]_vars

\* the await of a task returns: the executor call is over after its timeout
\* at the latest, and the event loop resumes the task
BatchFairness == \A j \in JobIds : WF_vars(\E ok \in BOOLEAN : JobResume(j, ok))

SpecBatchFair == SpecBatch /\ BatchFairness

NextFaceBatch ==
    \/ \E limit \in 0..1, reindex \in BOOLEAN, c \in MinConfidences :
          IndexFaces(limit, reindex, c)
    \/ \E limit \in 0..1, reindex \in BOOLEAN, c \in MinConfidences, k \in 1..Len(PhotoSeq) :
          IndexFacesFails(limit, reindex, c, k)

\* the face indexer, its runs ending normally or in a failure
SpecFaceBatch == Init /\ [][NextFaceBatch]_vars

-----------------------------------------------------------------------------
(* Claims about the batch runs and the indexing jobs *)

\* a step of the task of job j
TaskStep(j) == j \in DOMAIN task /\ task'[j] # task[j]

\* a job on which a photo fails goes on: it is not marked failed, the rows
\* committed so far stay, and unless the job ends by cancellation it takes up
\* the next photo or completes with every photo attempted
JobSurvivesPhotoFailure ==
    \A j \in JobIds :
        (TaskStep(j) /\ task[j].pc = "await" /\ last'.op = "job_photo" /\ ~last'.ret) =>
            /\ indexing_jobs'[j].status \in {"running", "completed", "cancelled"}
            /\ photo_index' = photo_index
            /\ indexing_jobs'[j].indexed_uuids = indexing_jobs[j].indexed_uuids
            /\ indexing_jobs'[j].status = "running" =>
                  (task'[j].pc = "await" /\ task'[j].i = task[j].i + 1)
            /\ indexing_jobs'[j].status = "completed" =>
                  indexing_jobs'[j].processed_photos = indexing_jobs'[j].total_photos

\* a run of the iCloud indexer attempts every photo of its batch: whatever
\* did not fail is indexed, and the rows there before stay
IcloudRunSurvivesPhotoFailure ==
    StepOf("poll_and_index_icloud") =>
        /\ Len(last'.newly_indexed) + Cardinality(last'.args.failing) = last'.ret
        /\ \A k \in 1..Len(last'.newly_indexed) :
              last'.newly_indexed[k] \in get_indexed_uuids(photo_index')
        /\ get_indexed_uuids(photo_index) \subseteq get_indexed_uuids(photo_index')

\* a run of the face indexer processes every photo of its batch, and the faces
\* stored before stay
FaceRunSurvivesPhotoFailure ==
    StepOf("index_faces") =>
        /\ last'.ret = Len(photos_to_process(photos, last'.args.reindex, last'.args.limit))
        /\ FaceIds(faces) \subseteq FaceIds(faces')

\* C23: in every batch run (an indexing job, a run of the iCloud indexer, a
\* run of the face indexer) a failure on one photo does not abort the batch:
\* every remaining photo is still attempted and what was committed before
\* the failure stays committed.
C23_PhotoFailureDoesNotAbortBatch ==
    [][/\ JobSurvivesPhotoFailure
       /\ IcloudRunSurvivesPhotoFailure
       /\ FaceRunSurvivesPhotoFailure]_vars

\* the face records the store fs holds for photo p
RecordsOf(fs, p) == {fs[k] : k \in {n \in 1..Len(fs) : fs[n].photo_uuid = p}}

\* C24: a run of index_faces without reindex leaves alone every photo whose
\* has_face_data flag is set: the photo's record and its face records, with
\* their cluster_id and person_name, are the same after the run.
C24_FlaggedPhotosAreSkipped ==
    [][(StepOf("index_faces") /\ ~last'.args.reindex) =>
          \A p \in PhotoIds :
              photos[p].has_face_data =>
                 /\ photos'[p] = photos[p]
                 /\ RecordsOf(faces', p) = RecordsOf(faces, p)]_vars

\* a run without reindex that processed a photo while faces of another photo,
\* indexed and clustered before, were in the store
C24_Witness ==
    /\ last.op = "index_faces"
    /\ ~last.args.reindex
    /\ last.ret >= 1
    /\ \E k \in 1..Len(faces) :
          /\ faces[k].cluster_id >= 0
          /\ photos[faces[k].photo_uuid].has_face_data

-----------------------------------------------------------------------------
(* The statistics of the face browser *)

\* GET /api/stats of the face browser, computed from the metadata of every
\* face: a person_name counts when it is truthy (neither None nor "")
api_stats(fs) ==
    LET unique_clusters == {fs[k].cluster_id : k \in 1..Len(fs)}
    IN [total_faces |-> Len(fs),
        num_clusters |-> Cardinality(unique_clusters)
                            - (IF -1 \in unique_clusters THEN 1 ELSE 0),
        outliers |-> Cardinality({k \in 1..Len(fs) : fs[k].cluster_id = -1}),
        labeled_clusters |->
            Cardinality({fs[k].person_name :
                            k \in {n \in 1..Len(fs) :
                                      fs[n].person_name \notin {NoName, EmptyName}}})]

\* the handler of GET /api/stats; the server handles one request at a time
FaceStats ==
    /\ run.pc = "idle" /\ lab.pc = "idle"
    /\ last' = [op |-> "stats", args |-> <<>>, ret |-> api_stats(faces)]
    /\ UNCHANGED <<jobvars, library, photo_index, index_metadata, photos, faces,
                   cluster_stats, run, lab, seen, ops>>

NextStats ==
    \/ \E limit \in 0..1, c \in MinConfidences : IndexFaces(limit, FALSE, c)
    \/ \E t \in Thresholds, m \in MinSizes \ {2} : ClusterRun(t, m, FALSE)
    \/ \E c \in LabelCids \ {-1}, n \in Names : LabelCluster(c, n)
    \/ FaceStats

\* the face store under whole operations, with the statistics read in between
SpecStats == Init /\ [][NextStats]_vars

\* the clusters of the store fs other than noise that carry a name
NamedClusters(fs) ==
    {c \in {fs[k].cluster_id : k \in 1..Len(fs)} \ {-1} :
        \E k \in 1..Len(fs) :
            fs[k].cluster_id = c /\ fs[k].person_name \notin {NoName, EmptyName}}

\* C25: the stats query changes nothing and reports the number of face
\* records, the number of distinct non-negative cluster ids, the number of
\* faces with cluster_id -1 (so that total_faces is outliers plus clustered
\* faces) and the number of non-noise clusters that have a person_name.
C25_StatsReportTheStore ==
    /\ [](last.op = "stats" =>
            /\ last.ret.total_faces = Len(faces)
            /\ last.ret.num_clusters =
                  Cardinality({faces[k].cluster_id : k \in 1..Len(faces)} \ {-1})
            /\ last.ret.outliers = Cardinality(Members(faces, -1))
            /\ last.ret.total_faces = last.ret.outliers
                  + Cardinality({k \in 1..Len(faces) : faces[k].cluster_id >= 0})
            /\ last.ret.labeled_clusters = Cardinality(NamedClusters(faces)))
    /\ [][(last'.op = "stats" /\ last' # last) =>
            UNCHANGED <<faces, photos, cluster_stats>>]_vars

\* the status of job j as get_job_status reports it
JobStatus(j) ==
    IF j \in DOMAIN indexing_jobs THEN indexing_jobs[j].status ELSE "not found"

\* job j is running, a photo is in progress and the cancellation of the job
\* has been requested
CancelPending(j) ==
    JobStatus(j) = "running" /\ task[j].pc = "await" /\ job_cancel_flags[j]

\* C26: once cancel_job was requested for a running job, the job takes up no
\* further photo and never becomes completed, and its status eventually is
\* cancelled.
C26_CancelStopsTheJob ==
    /\ [][\A j \in JobIds :
            CancelPending(j) =>
               /\ indexing_jobs'[j].status \in {"running", "cancelled"}
               /\ task'[j].pc = "await" => task'[j].i = task[j].i]_vars
    /\ \A j \in JobIds :
          CancelPending(j) ~> (JobStatus(j) = "cancelled")

\* the photos a step reports as newly indexed
NewlyIndexed ==
    IF last'.op \in {"job_photo", "poll_and_index_icloud"} /\ last' # last
    THEN {last'.newly_indexed[k] : k \in 1..Len(last'.newly_indexed)}
    ELSE {}

\* C27: indexing is resumable: a photo an indexing job has indexed is in the
\* saved cache as soon as the step that indexed it is over, and no run, of a
\* job or of the command-line indexer, indexes a photo that is already in
\* the index.
C27_IndexedPhotosAreSkipped ==
    [][/\ \A j \in JobIds :
             (TaskStep(j) /\ last'.op = "job_photo" /\ last'.ret) =>
                 last'.args.uuid \in indexed_cache'
       /\ \A u \in NewlyIndexed : u \notin get_indexed_uuids(photo_index)]_vars

-----------------------------------------------------------------------------
(* Claims about a clustering run overlapping a label request *)

\* the person_name the store fs holds for the face f
PersonIn(fs, f) ==
    LET k == CHOOSE k \in 1..Len(fs) : FaceId(fs[k]) = FaceId(f)
    IN fs[k].person_name

\* C28: when a label request was answered between the load of a clustering
\* run and the run's first write, and nothing else was done since, the end of
\* the run leaves every face with the cluster_id the run assigned and every
\* face the request labelled with the name of the request.
C28_NoLostUpdate ==
    [][(/\ run.pc = "persist" /\ run'.pc = "idle" /\ last'.op = "cluster"
        /\ lab.pc = "idle" /\ last.op = "label" /\ last.before_persist) =>
          \A j \in 1..Len(run.metadatas) :
              /\ ClusterIn(faces', run.metadatas[j]) = run.cluster_labels[j]
              /\ FaceId(run.metadatas[j]) \in last.labelled =>
                    PersonIn(faces', run.metadatas[j]) = last.args.label]_vars

\* the statuses a job ends in
Terminal == {"completed", "failed", "cancelled"}

AllJobsFinished ==
    /\ DOMAIN indexing_jobs = JobIds
    /\ \A j \in JobIds : indexing_jobs[j].status \in Terminal

C30_CacheKeepsBothJobs ==
    AllJobsFinished =>
        \A j \in JobIds :
            \A k \in 1..Len(indexing_jobs[j].indexed_uuids) :
                indexing_jobs[j].indexed_uuids[k] \in indexed_cache

====
